---- MODULE Spec2Model ----
(***************************************************************************)
(* Transactions dashboard: the query service (server/index.js) and the     *)
(* dashboard client (src/App.tsx).                                         *)
(*                                                                         *)
(* Text is a sequence of one-character strings, so that the substring      *)
(* filters of the service are computed and not assumed.  Prices are in     *)
(* cents (the column is decimal(10,2)).  A dateOfSale is [y, m, d]; its    *)
(* text is YYYY-MM-DD (the time part cannot hold "-MM-" and is left out).  *)
(***************************************************************************)
EXTENDS Integers, Sequences, FiniteSets, TLC

\* ---------------------------------------------------------------- bounds
MaxRows == 3          \* longest generated table
BigRows == 11         \* rows of the one table that needs a second page
MaxPage == 2          \* largest page number a caller asks for
MaxPerPage == 2       \* largest explicit perPage a caller passes
MaxRounds == 3        \* fetchData rounds the client starts in one run
MaxInFlight == 2      \* fetchData rounds that are unsettled at the same time

\* ------------------------------------------------------------------ text
\* a query parameter that is not in the URL (undefined); no text equals it
Absent == <<"(undefined)">>

\* JavaScript values that are a number, a string, undefined or an object
Num(n) == [t |-> "num", v |-> n]

Str(s) == [t |-> "str", v |-> s]

Undefined == [t |-> "undefined", v |-> 0]

Obj(name) == [t |-> "object", v |-> name]

DigitChars == <<"0", "1", "2", "3", "4", "5", "6", "7", "8", "9">>

DigitVal(c) == CHOOSE i \in 0..9 : DigitChars[i + 1] = c

RECURSIVE Digits(_)
\* Number.prototype.toString of a non-negative integer
Digits(n) == IF n < 10 THEN <<DigitChars[n + 1]>>
             ELSE Digits(n \div 10) \o <<DigitChars[(n % 10) + 1]>>

RECURSIVE ParseDigits(_)
\* ToNumber of a string of decimal digits
ParseDigits(s) == IF Len(s) = 0 THEN 0
                  ELSE 10 * ParseDigits(SubSeq(s, 1, Len(s) - 1)) + DigitVal(s[Len(s)])

Pad2(n) == IF n < 10 THEN <<"0">> \o Digits(n) ELSE Digits(n)

Pad4(n) == IF n < 10 THEN <<"0", "0", "0">> \o Digits(n)
           ELSE IF n < 100 THEN <<"0", "0">> \o Digits(n)
           ELSE IF n < 1000 THEN <<"0">> \o Digits(n)
           ELSE Digits(n)

UpperChars == <<"A", "B", "C", "D", "E", "F", "G", "H", "I", "J", "K", "L", "M",
                "N", "O", "P", "Q", "R", "S", "T", "U", "V", "W", "X", "Y", "Z">>

LowerChars == <<"a", "b", "c", "d", "e", "f", "g", "h", "i", "j", "k", "l", "m",
                "n", "o", "p", "q", "r", "s", "t", "u", "v", "w", "x", "y", "z">>

\* lower(c) for the upper-case letters
LowerOfUpper == [c \in { UpperChars[i] : i \in 1..26 } |->
                  LowerChars[CHOOSE i \in 1..26 : UpperChars[i] = c]]

LowerChar(c) == IF c \in DOMAIN LowerOfUpper THEN LowerOfUpper[c] ELSE c

Lower(s) == [i \in 1..Len(s) |-> LowerChar(s[i])]

\* s contains p as a contiguous substring
Contains(s, p) == \E i \in 1..(Len(s) - Len(p) + 1) : SubSeq(s, i, i + Len(p) - 1) = p

\* column ILIKE '%pattern%'
ILike(s, p) == Contains(Lower(s), Lower(p))

\* the text form of a timestamp column
DateText(d) == Pad4(d.y) \o <<"-">> \o Pad2(d.m) \o <<"-">> \o Pad2(d.d)

\* price::text of a decimal(10,2) column
PriceText(cents) == Digits(cents \div 100) \o <<".">> \o Pad2(cents % 100)

\* a template literal `${x}` of a query parameter
Interpolate(x) == IF x = Absent THEN <<"u", "n", "d", "e", "f", "i", "n", "e", "d">> ELSE x

\* JavaScript truthiness of a query parameter
Truthy(x) == x # Absent /\ x # <<>>

\* ----------------------------------------------------------------- table
KindBag == [title |-> <<"B", "a", "g">>, description |-> <<"r", "e", "d">>, price |-> 5000,
            category |-> "men", sold |-> TRUE, dateOfSale |-> [y |-> 2021, m |-> 3, d |-> 5]]

\* same dateOfSale as KindBag; a price on a range bound
KindCap == [title |-> <<"C", "a", "p">>, description |-> <<"B", "i", "g">>, price |-> 10000,
            category |-> "constructor", sold |-> FALSE,
            dateOfSale |-> [y |-> 2021, m |-> 3, d |-> 5]]

KindHat == [title |-> <<"H", "a", "t">>, description |-> <<"b", "a", "g">>, price |-> 10001,
            category |-> "toys", sold |-> TRUE, dateOfSale |-> [y |-> 2022, m |-> 3, d |-> 10]]

\* sold in November, on day 03
KindPen == [title |-> <<"P", "e", "n">>, description |-> <<>>, price |-> 95099,
            category |-> "__proto__", sold |-> TRUE,
            dateOfSale |-> [y |-> 2021, m |-> 11, d |-> 3]]

RowKinds == {KindBag, KindCap, KindHat, KindPen}

\* the identity column numbers the rows in insertion order
WithIds(kinds) == [i \in 1..Len(kinds) |-> [id |-> i] @@ kinds[i]]

SeqsUpTo(S, n) == UNION { [1..k -> S] : k \in 0..n }

BigTable == [i \in 1..BigRows |->
              [id |-> i, title |-> <<"B", "a", "g">>, description |-> <<"r", "e", "d">>,
               price |-> 9000 * i, category |-> "men", sold |-> (i % 2 = 0),
               dateOfSale |-> [y |-> 2021, m |-> 3, d |-> i]]]

Tables == { WithIds(k) : k \in SeqsUpTo(RowKinds, MaxRows) } \cup {BigTable}

Months == { Pad2(3), Pad2(11) }

Searches == { <<"b", "a", "g">>, <<"0", ".", "0", "1">> }

\* ----------------------------------------------------------------- store
StoreError == "store error"

FetchFailed == "fetch failed"

StoreOutcomes == {"ok", "storeError"}

FetchOutcomes == {"ok", "storeError", "networkError"}

Ok200(body) == [status |-> 200, body |-> body]

Err500(msg) == [status |-> 500, body |-> [error |-> msg]]

MonthMatches(row, month) == ILike(DateText(row.dateOfSale), <<"-">> \o month \o <<"-">>)

\* if (month) query = query.filter('dateOfSale', 'ilike', `%-${month}-%`)
MonthFilter(rows, month) ==
  IF Truthy(month) THEN SelectSeq(rows, LAMBDA r : MonthMatches(r, month)) ELSE rows

SearchMatches(row, search) ==
  \/ ILike(row.title, search)
  \/ ILike(row.description, search)
  \/ ILike(PriceText(row.price), search)

\* if (search) query = query.or(title.ilike, description.ilike, price::text.ilike)
SearchFilter(rows, search) ==
  IF Truthy(search) THEN SelectSeq(rows, LAMBDA r : SearchMatches(r, search)) ELSE rows

Range(s) == { s[i] : i \in 1..Len(s) }

DateKey(d) == (d.y * 10000) + (d.m * 100) + d.d

\* the rows the store may return first under ORDER BY "dateOfSale" DESC
Latest(S) == { r \in S : \A q \in S : DateKey(q.dateOfSale) <= DateKey(r.dateOfSale) }

RECURSIVE Orderings(_)
\* every order the store may give the rows: dateOfSale descending, rows of equal
\* dateOfSale in any order (the query names no second sort key)
Orderings(S) ==
  IF S = {} THEN {<<>>}
  ELSE UNION { { <<r>> \o o : o \in Orderings(S \ {r}) } : r \in Latest(S) }

Min(a, b) == IF a < b THEN a ELSE b

\* .range(from, to): the rows at 0-based positions from..to of the ordered result
RangeOf(ordered, from, to) == SubSeq(ordered, from + 1, Min(to + 1, Len(ordered)))

\* ------------------------------------------------- GET /api/transactions
DefaultPerPage == 10

ToNumber(x) == IF x.t = "num" THEN x.v ELSE ParseDigits(x.v)

\* String(x) of an inherited Object.prototype member, kept as one piece of text
ObjectText(name) ==
  IF name = "__proto__" THEN <<"[object Object]">>
  ELSE IF name = "constructor" THEN <<"function Object() { [native code] }">>
  ELSE <<"function ", name, "() { [native code] }">>

ToText(x) == IF x.t = "num" THEN Digits(x.v)
             ELSE IF x.t = "object" THEN ObjectText(x.v)
             ELSE x.v

\* the + operator: concatenation as soon as one operand is a string
JsAdd(a, b) == IF a.t = "num" /\ b.t = "num" THEN Num(a.v + b.v)
               ELSE Str(ToText(a) \o ToText(b))

PageOf(q) == IF q.page = Absent THEN Num(1) ELSE Str(q.page)

PerPageOf(q) == IF q.perPage = Absent THEN Num(DefaultPerPage) ELSE Str(q.perPage)

Offset(q) == (ToNumber(PageOf(q)) - 1) * ToNumber(PerPageOf(q))

\* offset + perPage - 1
RangeEnd(q) == ToNumber(JsAdd(Num(Offset(q)), PerPageOf(q))) - 1

Ceil(a, b) == (a + b - 1) \div b

Matching(tbl, q) == SearchFilter(MonthFilter(tbl, q.month), q.search)

\* the handler, given the store's outcome and the matching rows in the order the
\* store gave them (count is their number); a negative offset is a store error
ListTransactions(q, outcome, ordered) ==
  IF outcome # "ok" \/ Offset(q) < 0 THEN Err500(StoreError)
  ELSE Ok200([data |-> RangeOf(ordered, Offset(q), RangeEnd(q)),
              total |-> Len(ordered),
              page |-> ToNumber(PageOf(q)),
              totalPages |-> Ceil(Len(ordered), ToNumber(PerPageOf(q)))])

\* the orders in which the store may give the rows matching q
StoreResults(tbl, q) == Orderings(Range(Matching(tbl, q)))

\* --------------------------------------------------- GET /api/statistics
RECURSIVE SumSold(_)
\* data.reduce((sum, item) => item.sold ? sum + item.price : sum, 0)
SumSold(data) ==
  IF Len(data) = 0 THEN 0
  ELSE SumSold(SubSeq(data, 1, Len(data) - 1))
       + (IF data[Len(data)].sold THEN data[Len(data)].price ELSE 0)

RECURSIVE SumAll(_)
SumAll(data) == IF Len(data) = 0 THEN 0
                ELSE SumAll(SubSeq(data, 1, Len(data) - 1)) + data[Len(data)].price

\* a slip: the reduce adds every price, sold or not
StatisticsOfAllPrices(data) ==
  [totalSaleAmount |-> SumAll(data),
   totalSoldItems |-> Len(SelectSeq(data, LAMBDA item : item.sold)),
   totalUnsoldItems |-> Len(SelectSeq(data, LAMBDA item : ~item.sold))]

StatisticsOf(data) ==
  [totalSaleAmount |-> SumSold(data),
   totalSoldItems |-> Len(SelectSeq(data, LAMBDA item : item.sold)),
   totalUnsoldItems |-> Len(SelectSeq(data, LAMBDA item : ~item.sold))]

GetStatistics(tbl, month, outcome) ==
  IF outcome # "ok" THEN Err500(StoreError)
  ELSE Ok200(StatisticsOf(MonthFilter(tbl, month)))

\* ---------------------------------------------------- GET /api/bar-chart
RangeLabels == <<"0-100", "101-200", "201-300", "301-400", "401-500",
                 "501-600", "601-700", "701-800", "801-900", "901-above">>

\* a slip: exclusive upper bounds
RangeLabelExclusive(price) ==
  IF price < 10000 THEN "0-100"
  ELSE IF price < 20000 THEN "101-200"
  ELSE IF price < 30000 THEN "201-300"
  ELSE IF price < 40000 THEN "301-400"
  ELSE IF price < 50000 THEN "401-500"
  ELSE IF price < 60000 THEN "501-600"
  ELSE IF price < 70000 THEN "601-700"
  ELSE IF price < 80000 THEN "701-800"
  ELSE IF price < 90000 THEN "801-900"
  ELSE "901-above"

\* the if / else-if chain over price, in cents
RangeLabel(price) ==
  IF price <= 10000 THEN "0-100"
  ELSE IF price <= 20000 THEN "101-200"
  ELSE IF price <= 30000 THEN "201-300"
  ELSE IF price <= 40000 THEN "301-400"
  ELSE IF price <= 50000 THEN "401-500"
  ELSE IF price <= 60000 THEN "501-600"
  ELSE IF price <= 70000 THEN "601-700"
  ELSE IF price <= 80000 THEN "701-800"
  ELSE IF price <= 90000 THEN "801-900"
  ELSE "901-above"

RECURSIVE PriceRangesOf(_)
\* data.forEach(item => priceRanges[label]++) from the ten zero counts
PriceRangesOf(data) ==
  IF Len(data) = 0 THEN [l \in Range(RangeLabels) |-> 0]
  ELSE LET acc == PriceRangesOf(SubSeq(data, 1, Len(data) - 1))
       IN  [acc EXCEPT ![RangeLabel(data[Len(data)].price)] = @ + 1]

GetBarChart(tbl, month, outcome) ==
  IF outcome # "ok" THEN Err500(StoreError)
  ELSE Ok200(PriceRangesOf(MonthFilter(tbl, month)))

\* ---------------------------------------------------- GET /api/pie-chart
\* names every plain object inherits from Object.prototype
ObjectPrototypeKeys == {"constructor", "__proto__", "toString", "valueOf",
                        "hasOwnProperty", "isPrototypeOf", "propertyIsEnumerable",
                        "toLocaleString"}

EmptyObject == [k \in {} |-> Undefined]

\* acc[k]: the own property, else the inherited one, else undefined
GetProp(acc, k) == IF k \in DOMAIN acc THEN acc[k]
                   ELSE IF k \in ObjectPrototypeKeys THEN Obj(k)
                   ELSE Undefined

\* acc[k] = val; the __proto__ setter ignores a value that is no object
SetProp(acc, k, val) ==
  IF k = "__proto__" THEN acc
  ELSE [x \in (DOMAIN acc) \cup {k} |-> IF x = k THEN val ELSE acc[x]]

Falsy(x) == \/ x.t = "undefined"
            \/ (x.t = "num" /\ x.v = 0)
            \/ (x.t = "str" /\ x.v = <<>>)

\* (x || 0) + 1
OrZeroPlusOne(x) == JsAdd(IF Falsy(x) THEN Num(0) ELSE x, Num(1))

RECURSIVE CategoryCountOf(_)
\* data.reduce((acc, item) => { acc[c] = (acc[c] || 0) + 1; return acc }, {})
CategoryCountOf(data) ==
  IF Len(data) = 0 THEN EmptyObject
  ELSE LET acc == CategoryCountOf(SubSeq(data, 1, Len(data) - 1))
           c == data[Len(data)].category
       IN  SetProp(acc, c, OrZeroPlusOne(GetProp(acc, c)))

GetPieChart(tbl, month, outcome) ==
  IF outcome # "ok" THEN Err500(StoreError)
  ELSE Ok200(CategoryCountOf(MonthFilter(tbl, month)))

\* ------------------------------------------------ GET /api/combined-data
\* fetch(`.../api/x?month=${month}`): what the sub-call receives as its month
SubMonth(month) == Interpolate(month)

\* the three sub-responses; outs[i] says how sub-call i went
SubResponses(tbl, month, outs) ==
  <<GetStatistics(tbl, SubMonth(month), outs[1]),
    GetBarChart(tbl, SubMonth(month), outs[2]),
    GetPieChart(tbl, SubMonth(month), outs[3])>>

\* fetch rejects only when the request itself fails; then Promise.all rejects
GetCombinedData(tbl, month, outs) ==
  IF \E i \in 1..3 : outs[i] = "networkError" THEN Err500(FetchFailed)
  ELSE LET sub == SubResponses(tbl, month, outs)
       IN  Ok200([statistics |-> sub[1].body,
                  barChart |-> sub[2].body,
                  pieChart |-> sub[3].body])

\* ------------------------------------------------------------- variables
VARIABLES
  table,          \* the transactions table, read-only once the service listens
  call,           \* the last request a caller of the API made, with its response
  prev,           \* the request before it, when the caller repeated a list request
  crawl,          \* a caller reading pages 1..totalPages one after another
  selectedMonth, searchQuery, currentPage,                       \* App state
  transactions, totalPages, statistics, priceRanges, categoryData, loading,
  rounds          \* the fetchData rounds started so far, each with its outcome

apiVars == <<call, prev, crawl>>

clientVars == <<selectedMonth, searchQuery, currentPage, transactions, totalPages,
                statistics, priceRanges, categoryData, loading, rounds>>

vars == <<table, call, prev, crawl, selectedMonth, searchQuery, currentPage,
          transactions, totalPages, statistics, priceRanges, categoryData, loading,
          rounds>>

NoCall == [endpoint |-> "none"]

NoCrawl == [state |-> "idle"]

MonthParams == Months \cup {Absent}

SearchParams == Searches \cup {Absent}

PageParams == { Digits(n) : n \in 1..MaxPage } \cup {Absent}

PerPageParams == { Digits(n) : n \in 1..MaxPerPage } \cup {Absent}

ListQueries == [month : MonthParams, search : SearchParams,
                page : PageParams, perPage : PerPageParams]

\* useState(...) of App, before the first effect has run
Init ==
  /\ table \in Tables
  /\ call = NoCall
  /\ prev = NoCall
  /\ crawl = NoCrawl
  /\ selectedMonth = Pad2(3)
  /\ searchQuery = <<>>
  /\ currentPage = 1
  /\ transactions = <<>>
  /\ totalPages = 1
  /\ statistics = Undefined
  /\ priceRanges = EmptyObject
  /\ categoryData = EmptyObject
  /\ loading = TRUE
  /\ rounds = <<>>

\* ------------------------------------------------------ callers of the API
\* A behaviour follows one caller: one request, then (for the list) the same
\* request again or the next page.  The handlers keep no state between requests.
TransactionsCall(q, outcome, ordered) ==
  [endpoint |-> "transactions", q |-> q, res |-> ListTransactions(q, outcome, ordered)]

CallTransactions ==
  /\ call = NoCall
  /\ \E q \in ListQueries, outcome \in StoreOutcomes :
    \E ordered \in StoreResults(table, q) :
      /\ call' = TransactionsCall(q, outcome, ordered)
      /\ prev' = NoCall
      /\ crawl' = NoCrawl
      /\ UNCHANGED <<table, clientVars>>

\* the same list request once more, the table unchanged
RepeatTransactions ==
  /\ call.endpoint = "transactions"
  /\ prev = NoCall
  /\ \E outcome \in StoreOutcomes :
       \E ordered \in StoreResults(table, call.q) :
         /\ call' = TransactionsCall(call.q, outcome, ordered)
         /\ prev' = call
         /\ crawl' = NoCrawl
         /\ UNCHANGED <<table, clientVars>>

CallStatistics ==
  /\ call = NoCall
  /\ \E month \in MonthParams, outcome \in StoreOutcomes :
    /\ call' = [endpoint |-> "statistics", q |-> [month |-> month],
                res |-> GetStatistics(table, month, outcome)]
    /\ prev' = NoCall
    /\ crawl' = NoCrawl
    /\ UNCHANGED <<table, clientVars>>

CallBarChart ==
  /\ call = NoCall
  /\ \E month \in MonthParams, outcome \in StoreOutcomes :
    /\ call' = [endpoint |-> "bar-chart", q |-> [month |-> month],
                res |-> GetBarChart(table, month, outcome)]
    /\ prev' = NoCall
    /\ crawl' = NoCrawl
    /\ UNCHANGED <<table, clientVars>>

CallPieChart ==
  /\ call = NoCall
  /\ \E month \in MonthParams, outcome \in StoreOutcomes :
    /\ call' = [endpoint |-> "pie-chart", q |-> [month |-> month],
                res |-> GetPieChart(table, month, outcome)]
    /\ prev' = NoCall
    /\ crawl' = NoCrawl
    /\ UNCHANGED <<table, clientVars>>

\* outs keeps how each of the three sub-calls went
CallCombinedData ==
  /\ call = NoCall
  /\ \E month \in MonthParams, outs \in [1..3 -> FetchOutcomes] :
    /\ call' = [endpoint |-> "combined-data", q |-> [month |-> month],
                outs |-> outs,
                res |-> GetCombinedData(table, month, outs)]
    /\ prev' = NoCall
    /\ crawl' = NoCrawl
    /\ UNCHANGED <<table, clientVars>>

\* a caller starts reading the list page by page at a fixed perPage
CrawlStart ==
  /\ call = NoCall
  /\ \E q \in ListQueries, outcome \in StoreOutcomes :
    \E ordered \in StoreResults(table, q) :
      /\ q.page = Digits(1)
      /\ call' = TransactionsCall(q, outcome, ordered)
      /\ prev' = NoCall
      /\ crawl' = IF call'.res.status = 200
                  THEN [state |-> IF call'.res.body.totalPages <= 1 THEN "done" ELSE "reading",
                        q |-> q, read |-> 1, last |-> call'.res.body.totalPages,
                        rows |-> call'.res.body.data]
                  ELSE NoCrawl
      /\ UNCHANGED <<table, clientVars>>

\* the next page of the crawl
CrawlNext ==
  /\ crawl.state = "reading"
  /\ \E outcome \in StoreOutcomes :
       \E ordered \in StoreResults(table, crawl.q) :
         LET q == [crawl.q EXCEPT !.page = Digits(crawl.read + 1)] IN
         /\ call' = TransactionsCall(q, outcome, ordered)
         /\ prev' = NoCall
         /\ crawl' = IF call'.res.status = 200
                     THEN [crawl EXCEPT !.state = IF crawl.read + 1 = crawl.last
                                                  THEN "done" ELSE "reading",
                                        !.read = crawl.read + 1,
                                        !.rows = crawl.rows \o call'.res.body.data]
                     ELSE NoCrawl
         /\ UNCHANGED <<table, clientVars>>

\* callers of the aggregate endpoints
NextAggregates ==
  \/ CallStatistics
  \/ CallBarChart
  \/ CallPieChart
  \/ CallCombinedData

SpecAggregates == Init /\ [][NextAggregates]_vars

\* callers of the transaction list
NextList ==
  \/ CallTransactions
  \/ RepeatTransactions
  \/ CrawlStart
  \/ CrawlNext

SpecList == Init /\ [][NextList]_vars

\* ------------------------------------------------------ dashboard client
\* the table the dashboard is run against: empty, one page, two pages
MixedTable == WithIds(<<KindBag, KindHat, KindPen>>)

ClientTables == {WithIds(<<>>), MixedTable, BigTable}

InitClient == Init /\ table \in ClientTables

\* the values the search box is given, besides the empty text
TypedSearches == { <<"b", "a", "g">> }

Rejected == [st |-> "rejected"]

Fulfilled(res) == [st |-> "fulfilled", res |-> res]

\* the rounds whose await Promise.all has not resumed yet
InFlight == { i \in 1..Len(rounds) : rounds[i].state = "pending" }

\* fetchData as run by the effect: setLoading(true) and the two requests, with
\* the state of the render that ran the effect
StartRound(month, search, page) ==
  /\ Len(rounds) < MaxRounds
  /\ Cardinality(InFlight) < MaxInFlight
  /\ rounds' = Append(rounds, [month |-> month, search |-> search, page |-> page,
                               state |-> "pending", errored |-> FALSE])
  /\ loading' = TRUE

dataVars == <<transactions, totalPages, statistics, priceRanges, categoryData>>

\* the first effect after the first render
Mount ==
  /\ rounds = <<>>
  /\ StartRound(selectedMonth, searchQuery, currentPage)
  /\ UNCHANGED <<table, apiVars, selectedMonth, searchQuery, currentPage, dataVars>>

\* a slip: the handler leaves the page where it is
OnMonthChangeKeepsPage(m) ==
  /\ selectedMonth' = m
  /\ currentPage' = currentPage
  /\ StartRound(m, searchQuery, currentPage)

\* onChange of the month select, and the effect its render runs
OnMonthChange(m) ==
  /\ selectedMonth' = m
  /\ currentPage' = 1
  /\ StartRound(m, searchQuery, 1)

ChangeMonth ==
  /\ rounds # <<>>
  /\ \E m \in Months \ {selectedMonth} : OnMonthChange(m)
  /\ UNCHANGED <<table, apiVars, searchQuery, dataVars>>

\* onChange of the search input, and the effect its render runs
OnSearchChange(s) ==
  /\ searchQuery' = s
  /\ currentPage' = 1
  /\ StartRound(selectedMonth, s, 1)

ChangeSearch ==
  /\ rounds # <<>>
  /\ \E s \in (TypedSearches \cup {<<>>}) \ {searchQuery} : OnSearchChange(s)
  /\ UNCHANGED <<table, apiVars, selectedMonth, dataVars>>

Max(a, b) == IF a > b THEN a ELSE b

\* the Previous button, enabled unless currentPage === 1
ClickPrevious ==
  /\ rounds # <<>>
  /\ currentPage # 1
  /\ currentPage' = Max(1, currentPage - 1)
  /\ StartRound(selectedMonth, searchQuery, currentPage')
  /\ UNCHANGED <<table, apiVars, selectedMonth, searchQuery, dataVars>>

\* the Next button, enabled unless currentPage === totalPages
ClickNext ==
  /\ rounds # <<>>
  /\ currentPage # totalPages
  /\ currentPage' = Min(totalPages, currentPage + 1)
  /\ StartRound(selectedMonth, searchQuery, currentPage')
  /\ UNCHANGED <<table, apiVars, selectedMonth, searchQuery, dataVars>>

\* the query the service receives for round r's list request
RoundQuery(r) == [month |-> r.month, search |-> r.search,
                  page |-> Digits(r.page), perPage |-> Absent]

\* fetch of the list: rejected on a network failure, else fulfilled with the
\* service's response
FetchTransactions(r, outcome, ordered) ==
  IF outcome = "networkError" THEN Rejected
  ELSE Fulfilled(ListTransactions(RoundQuery(r), outcome, ordered))

\* how the three sub-calls go behind a combined request of the dashboard: in a
\* run of the dashboard at most one of the three fails
ClientSubOutcomes ==
  { outs \in [1..3 -> FetchOutcomes] : Cardinality({ i \in 1..3 : outs[i] # "ok" }) <= 1 }

\* fetch of the combined data: rejected on a network failure, else fulfilled
CombinedResults(r) ==
  {Rejected} \cup { Fulfilled(GetCombinedData(table, r.month, outs)) : outs \in ClientSubOutcomes }

\* fetch of the list, over what the store and the network may do
TransactionsResults(r) ==
  UNION { { FetchTransactions(r, outcome, ordered) : outcome \in FetchOutcomes } :
          ordered \in StoreResults(table, RoundQuery(r)) }

\* the fetch was fulfilled and response.ok holds
ResponseOk(result) == result.st = "fulfilled" /\ result.res.status = 200

\* an aggregate behind the combined call answered with an error
SubCallFailed(body) ==
  \E k \in {"statistics", "barChart", "pieChart"} : DOMAIN body[k] = {"error"}

\* a slip: the setters are skipped when a later round has been started
RoundSucceedsIfLatest(i, txs, combs) ==
  \E tx \in { t \in txs : ResponseOk(t) } :
    \E comb \in { c \in combs : ResponseOk(c) } :
      /\ IF i = Len(rounds)
           THEN /\ transactions' = tx.res.body.data
                /\ totalPages' = tx.res.body.totalPages
                /\ statistics' = comb.res.body.statistics
                /\ priceRanges' = comb.res.body.barChart
                /\ categoryData' = comb.res.body.pieChart
           ELSE UNCHANGED dataVars
      /\ rounds' = [rounds EXCEPT ![i].state = "done",
                                  ![i].errored = SubCallFailed(comb.res.body)]
      /\ loading' = FALSE

\* fetchData after await Promise.all, both responses ok: the five setters, then
\* finally.  errored records that an aggregate behind the combined call failed.
RoundSucceeds(i, txs, combs) ==
  \E tx \in { t \in txs : ResponseOk(t) } :
    \E comb \in { c \in combs : ResponseOk(c) } :
      /\ transactions' = tx.res.body.data
      /\ totalPages' = tx.res.body.totalPages
      /\ statistics' = comb.res.body.statistics
      /\ priceRanges' = comb.res.body.barChart
      /\ categoryData' = comb.res.body.pieChart
      /\ rounds' = [rounds EXCEPT ![i].state = "done",
                                  ![i].errored = SubCallFailed(comb.res.body)]
      /\ loading' = FALSE

\* fetchData after await Promise.all, a fetch rejected or
\* (!transactionsRes.ok || !combinedRes.ok): the catch, then finally
RoundFails(i, txs, combs) ==
  /\ \/ \E tx \in txs : ~ResponseOk(tx)
     \/ \E comb \in combs : ~ResponseOk(comb)
  /\ UNCHANGED dataVars
  /\ rounds' = [rounds EXCEPT ![i].state = "failed", ![i].errored = TRUE]
  /\ loading' = FALSE

\* The two responses take no effect on the App before the await resumes, so
\* their arrival is part of this step.  txs and combs are what the two fetches
\* of round i can resolve to.
Settle ==
  /\ \E i \in InFlight :
       \E txs \in {TransactionsResults(rounds[i])} :
         \E combs \in {CombinedResults(rounds[i])} :
           RoundSucceeds(i, txs, combs) \/ RoundFails(i, txs, combs)
  /\ UNCHANGED <<table, apiVars, selectedMonth, searchQuery, currentPage>>

NextClient ==
  \/ Mount
  \/ ChangeMonth
  \/ ChangeSearch
  \/ ClickPrevious
  \/ ClickNext
  \/ Settle

SpecClient == InitClient /\ [][NextClient]_vars

\* ------------------------------------------------ what the claims refer to
\* the rows of the table whose dateOfSale lies in the asked month (all rows when
\* no month is asked)
RowsOfMonth(month) ==
  { r \in Range(table) : Truthy(month) => Pad2(r.dateOfSale.m) = month }

RECURSIVE SumPrice(_)
SumPrice(S) == IF S = {} THEN 0
               ELSE LET r == CHOOSE x \in S : TRUE IN r.price + SumPrice(S \ {r})

RECURSIVE SumCounts(_, _)
SumCounts(f, keys) == IF keys = {} THEN 0
                      ELSE LET k == CHOOSE x \in keys : TRUE
                           IN  f[k] + SumCounts(f, keys \ {k})

Answered(endpoint) == call.endpoint = endpoint /\ call.res.status = 200

NoSearchQuery(month) == [month |-> month, search |-> Absent, page |-> Absent, perPage |-> Absent]

\* C1: the combined fetch fails as a whole whenever one of its three sub-calls
\* fails: then its status is not 2xx and its body is {error: message}.
C1_CombinedFailsWithAnySubCall ==
  (call.endpoint = "combined-data" /\ \E i \in 1..3 : call.outs[i] # "ok")
    => (call.res.status # 200 /\ DOMAIN call.res.body = {"error"})

\* C2: an absent month means all months: the aggregate endpoints compute over
\* every row of the table, and combined-data without month returns the three
\* aggregates that statistics, bar-chart and pie-chart return without month.
C2_AbsentMonthMeansAllMonths ==
  /\ (Answered("statistics") /\ call.q.month = Absent)
       => call.res.body = StatisticsOf(table)
  /\ (Answered("bar-chart") /\ call.q.month = Absent)
       => call.res.body = PriceRangesOf(table)
  /\ (Answered("pie-chart") /\ call.q.month = Absent)
       => call.res.body = CategoryCountOf(table)
  /\ (Answered("combined-data") /\ call.q.month = Absent
        /\ \A i \in 1..3 : call.outs[i] = "ok")
       => /\ call.res.body.statistics = GetStatistics(table, Absent, "ok").body
          /\ call.res.body.barChart = GetBarChart(table, Absent, "ok").body
          /\ call.res.body.pieChart = GetPieChart(table, Absent, "ok").body

\* C6: statistics: totalSoldItems + totalUnsoldItems is the number of rows of the
\* asked month, which is the total the transaction list reports for that month
\* and no search, and totalSaleAmount is the sum of price over the sold ones.
C6_StatisticsTotals ==
  Answered("statistics") =>
    LET body == call.res.body
        rows == RowsOfMonth(call.q.month)
        list == ListTransactions(NoSearchQuery(call.q.month), "ok",
                  CHOOSE o \in StoreResults(table, NoSearchQuery(call.q.month)) : TRUE)
    IN  /\ body.totalSoldItems + body.totalUnsoldItems = Cardinality(rows)
        /\ body.totalSoldItems + body.totalUnsoldItems = list.body.total
        /\ body.totalSaleAmount = SumPrice({ r \in rows : r.sold })

\* a month filter that keeps some rows and drops others, sold and unsold rows kept
C6_Witness ==
  /\ Answered("statistics")
  /\ call.q.month = Pad2(3)
  /\ call.res.body.totalSoldItems > 0
  /\ call.res.body.totalUnsoldItems > 0
  /\ call.res.body.totalSaleAmount > 0
  /\ \E r \in Range(table) : r.dateOfSale.m # 3

\* the bounds of the ten ranges, in cents: range i holds Lo(i) < price <= Hi(i)
BucketOf(price) ==
  IF price > 90000 THEN 10
  ELSE CHOOSE i \in 1..9 : price <= i * 10000 /\ (i > 1 => price > (i - 1) * 10000)

\* C7: the price histogram always has the ten labels, counts every row of the
\* asked month in exactly the range its price falls in by inclusive upper
\* bounds, and the ten counts sum to the number of those rows.
C7_PriceHistogram ==
  Answered("bar-chart") =>
    LET body == call.res.body
        rows == RowsOfMonth(call.q.month)
    IN  /\ DOMAIN body = Range(RangeLabels)
        /\ Len(RangeLabels) = 10
        /\ \A i \in 1..10 :
             body[RangeLabels[i]] = Cardinality({ r \in rows : BucketOf(r.price) = i })
        /\ SumCounts(body, DOMAIN body) = Cardinality(rows)

\* a price on a bound (100.00) and a price just above it (100.01), one row each
C7_Witness ==
  /\ Answered("bar-chart")
  /\ \E r \in RowsOfMonth(call.q.month) : r.price = 10000
  /\ \E r \in RowsOfMonth(call.q.month) : r.price = 10001
  /\ call.res.body["0-100"] = 1
  /\ call.res.body["101-200"] = 1

\* C8: the category histogram has exactly one key per category occurring among
\* the rows of the asked month, each value the number of those rows with that
\* category, and the values sum to the number of those rows.
C8_CategoryHistogram ==
  Answered("pie-chart") =>
    LET body == call.res.body
        rows == RowsOfMonth(call.q.month)
    IN  /\ DOMAIN body = { r.category : r \in rows }
        /\ \A c \in DOMAIN body :
             body[c] = Num(Cardinality({ r \in rows : r.category = c }))

\* the numbers a list request asks for
AskedPage(q) == IF q.page = Absent THEN 1 ELSE ParseDigits(q.page)

AskedPerPage(q) == IF q.perPage = Absent THEN DefaultPerPage ELSE ParseDigits(q.perPage)

SortedByDateDesc(rows) ==
  \A i \in 1..(Len(rows) - 1) :
    DateKey(rows[i].dateOfSale) >= DateKey(rows[i + 1].dateOfSale)

\* C3: pages 1..totalPages at a fixed perPage, read one after another over an
\* unchanged table, concatenate to every matching row exactly once, in
\* dateOfSale-descending order.
C3_PagesConcatenateToFilteredSet ==
  crawl.state = "done" =>
    LET matching == Range(Matching(table, crawl.q)) IN
    /\ Len(crawl.rows) = Cardinality(matching)
    /\ Range(crawl.rows) = matching
    /\ SortedByDateDesc(crawl.rows)

\* C4: two list requests with the same parameters over the same table return the
\* same rows in the same order.
C4_ListOrderDeterministic ==
  (prev.endpoint = "transactions" /\ prev.res.status = 200 /\ call.res.status = 200)
    => (prev.q = call.q => prev.res.body.data = call.res.body.data)

\* C5: a list request returns the rows at positions [(page-1)*perPage,
\* (page-1)*perPage + perPage) of the filtered, sorted set, at most perPage of
\* them, with total the number of matching rows and totalPages its ceiling
\* quotient by perPage, perPage being the default or passed in the query.
C5_PageWindow ==
  Answered("transactions") =>
    LET q == call.q
        body == call.res.body
        from == (AskedPage(q) - 1) * AskedPerPage(q)
        matching == Range(Matching(table, q))
    IN  /\ Len(body.data) <= AskedPerPage(q)
        /\ \E o \in Orderings(matching) :
             body.data = SubSeq(o, from + 1, Min(from + AskedPerPage(q), Len(o)))
        /\ body.total = Cardinality(matching)
        /\ body.totalPages = Ceil(Cardinality(matching), AskedPerPage(q))

Last(seq) == seq[Len(seq)]

\* C9: a change of selectedMonth or searchQuery sets currentPage to 1 and the
\* list request issued for the new filter carries page 1; every request that
\* is issued carries the month, search and page the App then holds, so none
\* combines a new filter with an old page.
C9_FilterChangeResetsPage ==
  [][ /\ (selectedMonth' # selectedMonth \/ searchQuery' # searchQuery)
           => /\ currentPage' = 1
              /\ Len(rounds') = Len(rounds) + 1
              /\ Last(rounds').page = 1
      /\ Len(rounds') > Len(rounds)
           => /\ Last(rounds').month = selectedMonth'
              /\ Last(rounds').search = searchQuery'
              /\ Last(rounds').page = currentPage' ]_vars

\* a request for page 2 was followed by a request for another month or search
C9_Witness ==
  \E i \in 1..(Len(rounds) - 1) :
    /\ rounds[i].page = 2
    /\ (rounds[i + 1].month # rounds[i].month \/ rounds[i + 1].search # rounds[i].search)
    /\ rounds[i + 1].page = 1
    /\ currentPage = 1

RoundSettles(i) == rounds[i].state = "pending" /\ rounds'[i].state # "pending"

\* C10: a fetchData round in which one of the two requests errors, a server-side
\* error in an aggregate behind the combined call included, leaves
\* transactions, totalPages, statistics, priceRanges and categoryData as they
\* were; the five are replaced only when both requests succeeded.
C10_FailedRoundKeepsData ==
  [][ /\ \A i \in 1..Len(rounds) :
           (RoundSettles(i) /\ rounds'[i].errored) => UNCHANGED dataVars
      /\ dataVars' # dataVars
           => \E i \in 1..Len(rounds) :
                RoundSettles(i) /\ rounds'[i].state = "done" /\ ~rounds'[i].errored ]_vars

\* the list bodies round r can be answered with when its request succeeds
OkListBodies(r) ==
  { t.res.body : t \in { x \in TransactionsResults(r) : ResponseOk(x) } }

\* the month, search and page the App holds, as a round would carry them
CurrentRound == [month |-> selectedMonth, search |-> searchQuery, page |-> currentPage,
                 state |-> "pending", errored |-> FALSE]

SameRequest(r1, r2) ==
  r1.month = r2.month /\ r1.search = r2.search /\ r1.page = r2.page

\* C11: stale responses are not discarded: a round that resolves with both
\* responses ok after a later round has been started replaces the displayed
\* list, page count and aggregates by the answers to its own month, search and
\* page, so an older round that resolves last overwrites the data of the newer
\* one.
C11_StaleResponseOverwrites ==
  [][ \A i \in 1..(Len(rounds) - 1) :
        (RoundSettles(i) /\ rounds'[i].state = "done")
          => LET q == RoundQuery(rounds[i])
                 m == SubMonth(rounds[i].month)
             IN  /\ \E ordered \in StoreResults(table, q) :
                      \E b \in {ListTransactions(q, "ok", ordered).body} :
                        transactions' = b.data /\ totalPages' = b.totalPages
                 /\ \E o \in StoreOutcomes :
                      statistics' = GetStatistics(table, m, o).body
                 /\ \E o \in StoreOutcomes :
                      priceRanges' = GetBarChart(table, m, o).body
                 /\ \E o \in StoreOutcomes :
                      categoryData' = GetPieChart(table, m, o).body ]_vars

\* no request is in flight, the latest round succeeded, and the list on display
\* is the answer to an older round for another month, search or page, not an
\* answer to the month, search and page the App holds
C11_Witness ==
  /\ InFlight = {}
  /\ Len(rounds) >= 2
  /\ Last(rounds).state = "done"
  /\ \A b \in OkListBodies(CurrentRound) : transactions # b.data
  /\ \E i \in 1..(Len(rounds) - 1) :
       /\ rounds[i].state = "done"
       /\ ~SameRequest(rounds[i], CurrentRound)
       /\ \E b \in OkListBodies(rounds[i]) : transactions = b.data

\* C12: currentPage stays within 1..max(1, totalPages) under month and search
\* changes, clicks on the enabled Previous and Next buttons and response
\* arrivals; no round is started for a page below 1.
C12_PageWithinRange ==
  /\ currentPage >= 1
  /\ currentPage <= Max(1, totalPages)
  /\ \A i \in 1..Len(rounds) : rounds[i].page >= 1

\* C13: loading is true whenever a fetchData round is in flight, also when
\* rounds overlap; it is false only when every started round has resolved or
\* failed.
C13_LoadingWhileInFlight == InFlight # {} => loading

====
